---- MODULE Spec2Model ----
(***************************************************************************)
(* denosim: a single-threaded discrete-event simulation kernel.            *)
(*                                                                         *)
(* The module models the scheduler (initializeSimulation, createEvent,     *)
(* scheduleEvent, runSimulation) and the store (createStore: put, get) of  *)
(* src/src/model.ts.  One TLA+ step of the run is one iteration of the     *)
(* `while (true)` loop of runSimulation, including the synchronous part of *)
(* the dispatched event's callback (handleEvent calls event.callback       *)
(* before the loop goes on).  What the promises do afterwards (the         *)
(* reactions of handleEvent's Promise.race, the continuations of awaits)   *)
(* are jobs of the microtask queue, which runs when the loop has returned. *)
(***************************************************************************)
EXTENDS Integers, Sequences, FiniteSets, TLC

\* ------------------------------------------------------------------ bounds
\* The most events a simulation holds (admitted before or during the run).
MaxEvents == 3
\* The latest due time an event is admitted with before the run.
MaxTime == 1
\* The most scheduleEvent calls that fail before the run.
MaxRefused == 1
\* The most items a store is created with.
MaxInitial == 2

\* Due times a caller may ask for before the run; -1 is in the past of the
\* initial clock.
Times == (0 - 1)..MaxTime

\* A process that calls scheduleEvent asks for currentTime + delta.
Deltas == {0 - 1, 0, 1}

\* ------------------------------------------------------------- the state
VARIABLES
    currentTime,  \* sim.currentTime
    events,       \* sim.events: a sequence of event records
    lastId,       \* the module-level counter of generateId
    phase,        \* "setup" | "running" | "terminated" | "thrown"
    dispatched,   \* history: the events runSimulation selected, in order
    admitted,     \* history: the ids scheduleEvent admitted, in order
    call,         \* history: the scheduleEvent call the last step made
    items,        \* createStore's state.items
    queue,        \* createStore's state.queue: the resolvers of parked gets
    resolved,     \* the store operations that returned: event id -> value, time
    ops,          \* history: the store operations made, in order
    putRequests,  \* resources store: deposits not yet claimed
    getRequests,  \* resources store: consumers waiting for an item
    jobs,         \* the microtask queue: promise jobs in the order enqueued
    reactions,    \* the events whose handleEvent awaits sim.termination
    raced,        \* the events whose Promise.race is settled
    caller        \* a caller of the store outside any simulation

schedVars == <<currentTime, events, lastId, phase, dispatched, admitted, call>>

storeVars == <<items, queue, resolved, ops>>

resourceVars == <<putRequests, getRequests>>

promiseVars == <<jobs, reactions, raced>>

vars == <<schedVars, storeVars, resourceVars, promiseVars, caller>>

NoCall == [op |-> "none"]

\* No caller of the store but the processes of the simulation.
NoCaller == [program |-> <<>>, pc |-> 1, awaiting |-> FALSE, results |-> <<>>]

\* ------------------------------------------------------ process callbacks
\* The callbacks the scheduler is exercised with:
\*   noop   async (_sim, _event) => {}
\*   sched  a process that admits a new event due at currentTime + delta;
\*          `isAsync` tells whether a throw inside it becomes a rejected
\*          promise (async function) or propagates to runSimulation.
NoopProcess == [kind |-> "noop"]

SchedProcesses ==
    {p \in [kind : {"sched"}, delta : Deltas, isAsync : BOOLEAN] :
        p.delta >= 0 => p.isAsync}

SchedulerProcesses == {NoopProcess} \cup SchedProcesses

\* The values a store is exercised with: 0 is a value JavaScript takes for
\* false in a condition (0, "", null), 1 one it takes for true ("foobar").
ItemValues == {0, 1}

Truthy(item) == item.val # 0

\* An item of the store: its value, and (history) the put that deposited
\* it, 0 for an item createStore was given.
Item(val, by) == [val |-> val, by |-> by]

\* The callbacks the store is exercised with:
\*   put   (_sim, _event) => store.put(item)
\*   get   async (_sim, event) => { const item = await store.get(); ... }
PutProcesses == [kind : {"put"}, val : ItemValues]

GetProcess == [kind |-> "get"]

StoreProcesses == PutProcesses \cup {GetProcess}

\* --------------------------------------------------------------- helpers
\* initializeSimulation: the clock at 0 and no events.
InitialTime == 0

\* generateId: ++lastId.
generateId(last) == last + 1

\* createEvent: a Fired event; no effect on the queue.
createEvent(now, id, scheduledAt, callback) ==
    [id |-> id, status |-> "Fired", firedAt |-> now,
     scheduledAt |-> scheduledAt, callback |-> callback]

\* The comparator of scheduleEvent's sort: (a, b) => b.scheduledAt -
\* a.scheduledAt.  A negative result puts a before b.
Compare(a, b) == b.scheduledAt - a.scheduledAt

\* Array.prototype.sort is stable: an element is placed after every element
\* it does not compare strictly before.
RECURSIVE InsertSorted(_, _)
InsertSorted(sorted, e) ==
    IF sorted = <<>> THEN <<e>>
    ELSE IF Compare(e, Head(sorted)) < 0
         THEN <<e>> \o sorted
         ELSE <<Head(sorted)>> \o InsertSorted(Tail(sorted), e)

RECURSIVE SortFrom(_, _)
SortFrom(sorted, rest) ==
    IF rest = <<>> THEN sorted
    ELSE SortFrom(InsertSorted(sorted, Head(rest)), Tail(rest))

\* A sort that is not stable: among elements that compare equal, the one
\* that came later in the array ends first.
RECURSIVE InsertBeforeEqual(_, _)
InsertBeforeEqual(sorted, e) ==
    IF sorted = <<>> THEN <<e>>
    ELSE IF Compare(e, Head(sorted)) <= 0
         THEN <<e>> \o sorted
         ELSE <<Head(sorted)>> \o InsertBeforeEqual(Tail(sorted), e)

RECURSIVE SortFromUnstable(_, _)
SortFromUnstable(sorted, rest) ==
    IF rest = <<>> THEN sorted
    ELSE SortFromUnstable(InsertBeforeEqual(sorted, Head(rest)), Tail(rest))

SortUnstable(s) == SortFromUnstable(<<>>, s)

Sort(s) == SortFrom(<<>>, s)

\* A guard that lets an event due one unit before the current time pass.
InThePastOffByOne(scheduledAt, now) == scheduledAt + 1 < now

\* scheduleEvent's guard: the event is due before the current time.
InThePast(scheduledAt, now) == scheduledAt < now

\* A scheduleEvent that queues the event as createEvent made it.
scheduleEventKeepsStatus(evs, event) == Sort(Append(evs, event))

\* scheduleEvent's result when it does not throw: the events with the new
\* one appended as Scheduled, sorted by decreasing scheduledAt.
scheduleEvent(evs, event) ==
    Sort(Append(evs, [event EXCEPT !.status = "Scheduled"]))

\* runSimulation's filter: the events still to do.
IsTodo(e, now) == e.scheduledAt >= now /\ e.status = "Scheduled"

TodoIndexes(evs, now) == {i \in 1..Len(evs) : IsTodo(evs[i], now)}

Max(S) == CHOOSE x \in S : \A y \in S : y <= x

Min(S) == CHOOSE x \in S : \A y \in S : x <= y

\* A selection that takes the first Scheduled event of sim.events and does
\* not look at the clock.
NextEventFirstScheduled(evs, now) ==
    LET scheduled == {i \in 1..Len(evs) : evs[i].status = "Scheduled"}
    IN IF scheduled = {} THEN 0 ELSE Min(scheduled)

\* sim.events.filter(...).pop(): the last element of the filtered array, as
\* an index of sim.events (the filter keeps the objects, so the later
\* assignment to event.status is seen through sim.events); 0 stands for
\* the undefined that pop() gives on an empty array.
NextEvent(evs, now) ==
    IF TodoIndexes(evs, now) = {} THEN 0 ELSE Max(TodoIndexes(evs, now))

\* How many events the simulation will hold once every admitted process
\* that schedules a child has run.
Cost(callback) ==
    IF callback.kind = "sched" /\ callback.delta >= 0 THEN 2 ELSE 1

RECURSIVE Budget(_)
Budget(evs) ==
    IF evs = <<>> THEN 0
    ELSE Budget(Tail(evs))
         + (IF Head(evs).status = "Scheduled" THEN Cost(Head(evs).callback) ELSE 1)

\* ------------------------------------------------------------- the store
\* A put that resolves the newest parked get (queue.pop()).
putNewestRequest(its, q, item) ==
    IF q # <<>>
    THEN [items |-> its, queue |-> SubSeq(q, 1, Len(q) - 1),
          woken |-> <<q[Len(q)]>>, returned |-> <<item>>]
    ELSE [items |-> Append(its, item), queue |-> q,
          woken |-> <<>>, returned |-> <<item>>]

\* A put that keeps its caller waiting while no get is parked.
putParks(its, q, item) ==
    IF q # <<>>
    THEN [items |-> its, queue |-> Tail(q),
          woken |-> <<Head(q)>>, returned |-> <<item>>]
    ELSE [items |-> Append(its, item), queue |-> q,
          woken |-> <<>>, returned |-> <<>>]

\* put(item): state.queue.shift(); a pending request is called with the
\* item, otherwise the item is pushed; Promise.resolve(item) is returned.
\* `woken` is the parked get whose promise the call resolves, `returned`
\* the value of the promise put returns.
put(its, q, item) ==
    IF q # <<>>
    THEN [items |-> its, queue |-> Tail(q),
          woken |-> <<Head(q)>>, returned |-> <<item>>]
    ELSE [items |-> Append(its, item), queue |-> q,
          woken |-> <<>>, returned |-> <<item>>]

\* A get that, finding nothing to take, forgets the requests parked before
\* (state.queue = [resolve]).
getForgetsParked(its, q, who) ==
    LET shifted == IF its = <<>> THEN <<>> ELSE Tail(its)
    IN IF its # <<>> /\ Truthy(Head(its))
       THEN [items |-> shifted, queue |-> q, returned |-> <<Head(its)>>]
       ELSE [items |-> shifted, queue |-> <<who>>, returned |-> <<>>]

\* get(): state.items.shift(); `if (pendingItem)` returns it resolved,
\* otherwise a new promise whose resolver is pushed on state.queue.  The
\* shift has taken the item off state.items whatever the `if` finds.
\* `returned` is the value of the promise when get returns it resolved.
get(its, q, who) ==
    LET shifted == IF its = <<>> THEN <<>> ELSE Tail(its)
    IN IF its # <<>> /\ Truthy(Head(its))
       THEN [items |-> shifted, queue |-> q, returned |-> <<Head(its)>>]
       ELSE [items |-> shifted, queue |-> Append(q, who), returned |-> <<>>]

\* The record of one store operation: who made it, when, and the store it
\* found.
OpRecord(op, by, now, item) ==
    [op |-> op, by |-> by, now |-> now, item |-> item,
     itemsBefore |-> items, queueBefore |-> queue]

\* A promise resolved with `value` at time `now`.
Resolution(value, now) == [value |-> value, at |-> now]

Resolve(res, id, value, now) ==
    [x \in DOMAIN res \cup {id} |->
        IF x = id THEN Resolution(value, now) ELSE res[x]]

\* ------------------------------------------------------------ handleEvent
\* The jobs of the microtask queue.  `value` is <<>> for undefined, <<v>>
\* for the value v.
\*   continuation  the rest of an async callback after `await store.get()`
\*   thenable      the async callback returned Promise.resolve(item): the
\*                 job that calls its then
\*   resolve       the reaction that fulfils the callback's promise
\*   completed     handleEvent's reaction to the callback's promise
\*   rejected      the same reaction when the callback's promise is rejected
\*   terminated    handleEvent's reaction to sim.termination
\*   race          Promise.race's reaction to one of its two promises;
\*                 `outcome` is <<event>>, or <<>> for a rejection
\*   replace       runSimulation's reaction: the event replaces its
\*                 namesake in sim.events
ContinuationJob(id, value) == [job |-> "continuation", id |-> id, value |-> value]

CompletedJob(id, value) == [job |-> "completed", id |-> id, value |-> value]

RejectedJob(id) == [job |-> "rejected", id |-> id]

TerminatedJob(id) == [job |-> "terminated", id |-> id]

\* The event of sim.events the callback was called with.
EventOf(evs, id) == evs[CHOOSE k \in 1..Len(evs) : evs[k].id = id]

\* An event left as it was when sim.termination resolves.
TerminatedEventLeftPending(event, now) == event

\* ({...event, finishedAt: sim.currentTime, status: Terminated})
TerminatedEvent(event, now) ==
    [finishedAt |-> now, status |-> "Terminated"] @@ event

\* ({...event, item, finishedAt: sim.currentTime, status: Completed})
CompletedEvent(event, value, now) ==
    [item |-> value, finishedAt |-> now, status |-> "Completed"] @@ event

\* sim.events.map(existing => existing.id === newEvent.id ? newEvent : existing)
ReplaceEvent(evs, newEvent) ==
    [k \in 1..Len(evs) |-> IF evs[k].id = newEvent.id THEN newEvent ELSE evs[k]]

\* One job of the microtask queue: it is taken off the head and what it
\* enqueues goes to the tail.
RunJob(s, now) ==
    LET j == Head(s.jobs)
        rest == Tail(s.jobs)
    IN CASE j.job = "continuation" ->
              [s EXCEPT !.jobs = Append(rest, [j EXCEPT !.job = "thenable"])]
         [] j.job = "thenable" ->
              [s EXCEPT !.jobs = Append(rest, [j EXCEPT !.job = "resolve"])]
         [] j.job = "resolve" ->
              [s EXCEPT !.jobs = Append(rest, CompletedJob(j.id, j.value))]
         [] j.job = "completed" ->
              [s EXCEPT !.jobs = Append(rest,
                  [job |-> "race", id |-> j.id,
                   outcome |-> <<CompletedEvent(EventOf(s.events, j.id),
                                                j.value, now)>>])]
         [] j.job = "rejected" ->
              [s EXCEPT !.jobs = Append(rest,
                  [job |-> "race", id |-> j.id, outcome |-> <<>>])]
         [] j.job = "terminated" ->
              [s EXCEPT !.jobs = Append(rest,
                  [job |-> "race", id |-> j.id,
                   outcome |-> <<TerminatedEvent(EventOf(s.events, j.id), now)>>])]
         [] j.job = "race" ->
              IF j.id \in s.raced THEN [s EXCEPT !.jobs = rest]
              ELSE [s EXCEPT !.raced = s.raced \cup {j.id},
                             !.jobs = IF j.outcome = <<>> THEN rest
                                      ELSE Append(rest,
                                          [job |-> "replace", id |-> j.id,
                                           event |-> j.outcome[1]])]
         [] j.job = "replace" ->
              [s EXCEPT !.events = ReplaceEvent(s.events, j.event),
                        !.jobs = rest]

RECURSIVE Drain(_, _)
Drain(s, now) == IF s.jobs = <<>> THEN s ELSE Drain(RunJob(s, now), now)

\* ------------------------------------------------------------------ Init
Init ==
    /\ currentTime = InitialTime
    /\ events = <<>>
    /\ lastId = 0
    /\ phase = "setup"
    /\ dispatched = <<>>
    /\ admitted = <<>>
    /\ call = NoCall
    /\ items = <<>>
    /\ queue = <<>>
    /\ resolved = <<>>
    /\ ops = <<>>
    /\ putRequests = <<>>
    /\ getRequests = <<>>
    /\ jobs = <<>>
    /\ reactions = <<>>
    /\ raced = {}
    /\ caller = NoCaller

\* --------------------------------------------------------------- actions
\* The record of one scheduleEvent call: what it was asked, what the
\* simulation was when it was made, and whether it threw.
CallRecord(scheduledAt, now, evs, threw) ==
    [op |-> "scheduleEvent", scheduledAt |-> scheduledAt, now |-> now,
     eventsBefore |-> evs, threw |-> threw]

\* Before the run: e = createEvent(sim, t, callback);
\* sim.events = scheduleEvent(sim, e).
Admit(t, callback) ==
    /\ phase = "setup"
    /\ Budget(events) + Cost(callback) + Len(items) <= MaxEvents
    /\ InThePast(t, currentTime) => lastId < Len(admitted) + MaxRefused
    /\ lastId' = generateId(lastId)
    /\ call' = CallRecord(t, currentTime, events, InThePast(t, currentTime))
    /\ IF InThePast(t, currentTime)
       THEN UNCHANGED <<events, admitted>>
       ELSE /\ events' = scheduleEvent(events,
                            createEvent(currentTime, lastId', t, callback))
            /\ admitted' = Append(admitted, lastId')
    /\ UNCHANGED <<currentTime, phase, dispatched, storeVars, resourceVars,
                   promiseVars, caller>>

AdmitSchedulerProcess == \E t \in Times, cb \in SchedulerProcesses : Admit(t, cb)

\* runSimulation is called.
Run ==
    /\ phase = "setup"
    /\ phase' = "running"
    /\ call' = NoCall
    /\ UNCHANGED <<currentTime, events, lastId, dispatched, admitted,
                   storeVars, resourceVars, promiseVars, caller>>

\* The part of a loop iteration every dispatch shares: select, advance the
\* clock, mark Pending.
Selected(i) ==
    /\ phase = "running"
    /\ NextEvent(events, currentTime) # 0
    /\ i = NextEvent(events, currentTime)

\* A selection that leaves the event as scheduleEvent admitted it.
AfterSelectLeftScheduled(i) == events

\* event.status = EventState.Pending
AfterSelect(i) == [events EXCEPT ![i].status = "Pending"]

LogDispatch(i) ==
    Append(dispatched, [id |-> events[i].id, at |-> events[i].scheduledAt,
                        seen |-> Len(admitted)])

\* A loop iteration whose event's callback does nothing.
DispatchNoop ==
    \E i \in 1..Len(events) :
        /\ Selected(i)
        /\ events[i].callback.kind = "noop"
        /\ currentTime' = events[i].scheduledAt
        /\ events' = AfterSelect(i)
        /\ dispatched' = LogDispatch(i)
        /\ call' = NoCall
        /\ reactions' = Append(reactions, events[i].id)
        /\ jobs' = Append(jobs, CompletedJob(events[i].id, <<>>))
        /\ UNCHANGED <<lastId, phase, admitted, storeVars, resourceVars,
                       raced, caller>>

\* A loop iteration whose event's callback admits a new event:
\* sim.events = scheduleEvent(sim, createEvent(sim, sim.currentTime + delta)).
DispatchSched ==
    \E i \in 1..Len(events) :
        /\ Selected(i)
        /\ events[i].callback.kind = "sched"
        /\ LET now == events[i].scheduledAt
               at == now + events[i].callback.delta
               threw == InThePast(at, now)
           IN /\ currentTime' = now
              /\ dispatched' = LogDispatch(i)
              /\ lastId' = generateId(lastId)
              /\ call' = CallRecord(at, now, AfterSelect(i), threw)
              /\ IF threw
                 THEN /\ events' = AfterSelect(i)
                      /\ admitted' = admitted
                      /\ phase' = IF events[i].callback.isAsync
                                  THEN phase ELSE "thrown"
                      /\ jobs' = IF events[i].callback.isAsync
                                 THEN Append(jobs, RejectedJob(events[i].id))
                                 ELSE jobs
                 ELSE /\ events' = scheduleEvent(AfterSelect(i),
                                      createEvent(now, lastId', at, NoopProcess))
                      /\ admitted' = Append(admitted, lastId')
                      /\ phase' = phase
                      /\ jobs' = Append(jobs, CompletedJob(events[i].id, <<>>))
              /\ reactions' = Append(reactions, events[i].id)
        /\ UNCHANGED <<storeVars, resourceVars, raced, caller>>

\* The loop finds nothing to do: break, sim.terminate(...).
LoopExit ==
    /\ phase = "running"
    /\ NextEvent(events, currentTime) = 0
    /\ phase' = "terminated"
    /\ call' = NoCall
    /\ jobs' = jobs \o [k \in 1..Len(reactions) |-> TerminatedJob(reactions[k])]
    /\ UNCHANGED <<currentTime, events, lastId, dispatched, admitted,
                   storeVars, resourceVars, reactions, raced, caller>>

\* The caller of runSimulation has returned to the event loop: the
\* microtask queue runs until it is empty.
Settle ==
    /\ phase \in {"terminated", "thrown"}
    /\ jobs # <<>>
    /\ LET end == Drain([events |-> events, jobs |-> jobs, raced |-> raced],
                        currentTime)
       IN /\ events' = end.events
          /\ jobs' = end.jobs
          /\ raced' = end.raced
    /\ call' = NoCall
    /\ UNCHANGED <<currentTime, lastId, phase, dispatched, admitted,
                   storeVars, resourceVars, reactions, caller>>

Next ==
    \/ AdmitSchedulerProcess
    \/ Run
    \/ DispatchNoop
    \/ DispatchSched
    \/ LoopExit
    \/ Settle

Spec == Init /\ [][Next]_vars

\* ------------------------------------------------- the store in the run
\* createStore(initialItems): a store that starts with up to MaxInitial
\* items.
InitialItems ==
    UNION {[1..n -> {Item(v, 0) : v \in ItemValues}] : n \in 0..MaxInitial}

StoreInit ==
    /\ currentTime = InitialTime
    /\ events = <<>>
    /\ lastId = 0
    /\ phase = "setup"
    /\ dispatched = <<>>
    /\ admitted = <<>>
    /\ call = NoCall
    /\ items \in InitialItems
    /\ queue = <<>>
    /\ resolved = <<>>
    /\ ops = <<>>
    /\ putRequests = <<>>
    /\ getRequests = <<>>
    /\ jobs = <<>>
    /\ reactions = <<>>
    /\ raced = {}
    /\ caller = NoCaller

AdmitStoreProcess == \E t \in 0..MaxTime, cb \in StoreProcesses : Admit(t, cb)

\* A loop iteration whose event's callback returns store.put(item).
DispatchPut ==
    \E i \in 1..Len(events) :
        /\ Selected(i)
        /\ events[i].callback.kind = "put"
        /\ LET now == events[i].scheduledAt
               id == events[i].id
               item == Item(events[i].callback.val, id)
               r == put(items, queue, item)
               woke == IF r.woken = <<>> THEN resolved
                       ELSE Resolve(resolved, r.woken[1], item, now)
           IN /\ currentTime' = now
              /\ events' = AfterSelect(i)
              /\ dispatched' = LogDispatch(i)
              /\ items' = r.items
              /\ queue' = r.queue
              /\ resolved' = IF r.returned = <<>> THEN woke
                              ELSE Resolve(woke, id, r.returned[1], now)
              /\ ops' = Append(ops, OpRecord("put", id, now, item))
              /\ jobs' = (IF r.woken = <<>> THEN jobs
                          ELSE Append(jobs, ContinuationJob(r.woken[1], <<item>>)))
                         \o (IF r.returned = <<>> THEN <<>>
                             ELSE <<CompletedJob(id, r.returned)>>)
        /\ call' = NoCall
        /\ reactions' = Append(reactions, events[i].id)
        /\ UNCHANGED <<lastId, phase, admitted, resourceVars, raced, caller>>

\* A loop iteration whose event's callback awaits store.get().
DispatchGet ==
    \E i \in 1..Len(events) :
        /\ Selected(i)
        /\ events[i].callback.kind = "get"
        /\ LET now == events[i].scheduledAt
               id == events[i].id
               r == get(items, queue, id)
           IN /\ currentTime' = now
              /\ events' = AfterSelect(i)
              /\ dispatched' = LogDispatch(i)
              /\ items' = r.items
              /\ queue' = r.queue
              /\ resolved' = IF r.returned = <<>> THEN resolved
                              ELSE Resolve(resolved, id, r.returned[1], now)
              /\ ops' = Append(ops, OpRecord("get", id, now, Item(0, 0)))
              /\ jobs' = IF r.returned = <<>> THEN jobs
                         ELSE Append(jobs, ContinuationJob(id, r.returned))
        /\ call' = NoCall
        /\ reactions' = Append(reactions, events[i].id)
        /\ UNCHANGED <<lastId, phase, admitted, resourceVars, raced, caller>>

StoreNext ==
    \/ AdmitStoreProcess
    \/ Run
    \/ DispatchPut
    \/ DispatchGet
    \/ LoopExit
    \/ Settle

StoreSpec == StoreInit /\ [][StoreNext]_vars

\* ---------------------------------------- the resources store (coroutines)
\* The store of the coroutine engine: put(sim, event, store, item, blocking)
\* and get(sim, event, store), of which the repository's tests and the
\* example are the callers.  The scheduler that drives it is the one above.
ResourceProcesses ==
    [kind : {"resourcesPut"}, blocking : BOOLEAN] \cup {[kind |-> "resourcesGet"]}

\* A get that lets a producer parked in blocking mode stay parked.
resourcesGetLeavesProducer(puts, gets, who) ==
    IF puts # <<>>
    THEN [putRequests |-> Tail(puts), getRequests |-> gets,
          resumed |-> {[id |-> who, value |-> Head(puts).item]}]
    ELSE [putRequests |-> puts, getRequests |-> Append(gets, who),
          resumed |-> {}]

\* A get that takes the oldest deposit of a parked (blocking) producer when
\* there is one, before the older deposits of producers that went on.
resourcesGetBlockingFirst(puts, gets, who) ==
    LET blocked == {k \in 1..Len(puts) : puts[k].blocking}
        pick == IF blocked = {} THEN 1
                ELSE CHOOSE k \in blocked : \A m \in blocked : k <= m
    IN IF puts # <<>>
       THEN [putRequests |-> [k \in 1..(Len(puts) - 1) |->
                                 IF k < pick THEN puts[k] ELSE puts[k + 1]],
             getRequests |-> gets,
             resumed |-> {[id |-> who, value |-> puts[pick].item]}
                         \cup (IF puts[pick].blocking
                               THEN {[id |-> puts[pick].process,
                                      value |-> puts[pick].item]}
                               ELSE {})]
       ELSE [putRequests |-> puts, getRequests |-> Append(gets, who),
             resumed |-> {}]

\* get: with a deposit queued, the oldest is popped and its item given to
\* the requester, which resumes now; a producer parked on that deposit in
\* blocking mode resumes now too.  Otherwise the requester is queued and
\* parked.  `resumed` are the processes that resume, each with its value.
resourcesGet(puts, gets, who) ==
    IF puts # <<>>
    THEN [putRequests |-> Tail(puts), getRequests |-> gets,
          resumed |-> {[id |-> who, value |-> Head(puts).item]}
                      \cup (IF Head(puts).blocking
                            THEN {[id |-> Head(puts).process,
                                   value |-> Head(puts).item]}
                            ELSE {})]
    ELSE [putRequests |-> puts, getRequests |-> Append(gets, who),
          resumed |-> {}]

\* put: with a consumer waiting, the oldest is popped and resumes now with
\* the item, and the producer resumes now whatever `blocking` is.
\* Otherwise the deposit is queued; the producer goes on at once unless
\* `blocking`, in which case it parks until a get takes this deposit.
resourcesPut(puts, gets, who, item, blocking) ==
    IF gets # <<>>
    THEN [putRequests |-> puts, getRequests |-> Tail(gets),
          resumed |-> {[id |-> Head(gets), value |-> item],
                       [id |-> who, value |-> item]}]
    ELSE [putRequests |-> Append(puts, [item |-> item, process |-> who,
                                        blocking |-> blocking]),
          getRequests |-> gets,
          resumed |-> IF blocking THEN {} ELSE {[id |-> who, value |-> item]}]

\* The processes in `resumed` go on at time `now`.
ResumeAll(res, resumed, now) ==
    [x \in DOMAIN res \cup {r.id : r \in resumed} |->
        IF \E r \in resumed : r.id = x
        THEN Resolution((CHOOSE r \in resumed : r.id = x).value, now)
        ELSE res[x]]

\* A process of the tests returns as soon as its store operation does:
\* its event is Completed.
Complete(evs, ids) ==
    [k \in DOMAIN evs |->
        IF evs[k].id \in ids THEN [evs[k] EXCEPT !.status = "Completed"]
        ELSE evs[k]]

ResourceOpRecord(op, by, now, item, blocking) ==
    [op |-> op, by |-> by, now |-> now, item |-> item, blocking |-> blocking,
     putRequestsBefore |-> putRequests, getRequestsBefore |-> getRequests]

AdmitResourceProcess ==
    \E t \in 0..MaxTime, cb \in ResourceProcesses : Admit(t, cb)

\* A loop iteration whose process yields put(sim, event, store, item,
\* blocking).
DispatchResourcesPut ==
    \E i \in 1..Len(events) :
        /\ Selected(i)
        /\ events[i].callback.kind = "resourcesPut"
        /\ LET now == events[i].scheduledAt
               id == events[i].id
               item == Item(1, id)
               r == resourcesPut(putRequests, getRequests, id, item,
                                 events[i].callback.blocking)
           IN /\ currentTime' = now
              /\ events' = Complete(AfterSelect(i), {x.id : x \in r.resumed})
              /\ dispatched' = LogDispatch(i)
              /\ putRequests' = r.putRequests
              /\ getRequests' = r.getRequests
              /\ resolved' = ResumeAll(resolved, r.resumed, now)
              /\ ops' = Append(ops, ResourceOpRecord("put", id, now, item,
                                    events[i].callback.blocking))
        /\ call' = NoCall
        /\ UNCHANGED <<lastId, phase, admitted, items, queue, promiseVars,
                       caller>>

\* A loop iteration whose process yields get(sim, event, store).
DispatchResourcesGet ==
    \E i \in 1..Len(events) :
        /\ Selected(i)
        /\ events[i].callback.kind = "resourcesGet"
        /\ LET now == events[i].scheduledAt
               id == events[i].id
               r == resourcesGet(putRequests, getRequests, id)
           IN /\ currentTime' = now
              /\ events' = Complete(AfterSelect(i), {x.id : x \in r.resumed})
              /\ dispatched' = LogDispatch(i)
              /\ putRequests' = r.putRequests
              /\ getRequests' = r.getRequests
              /\ resolved' = ResumeAll(resolved, r.resumed, now)
              /\ ops' = Append(ops, ResourceOpRecord("get", id, now, Item(0, 0),
                                    FALSE))
        /\ call' = NoCall
        /\ UNCHANGED <<lastId, phase, admitted, items, queue, promiseVars,
                       caller>>

ResourceNext ==
    \/ AdmitResourceProcess
    \/ Run
    \/ DispatchResourcesPut
    \/ DispatchResourcesGet
    \/ LoopExit

ResourceSpec == Init /\ [][ResourceNext]_vars

\* ---------------------------------------------------------------- claims
AdmitPos(id) == CHOOSE k \in 1..Len(admitted) : admitted[k] = id

DuringRun(id) == Len(dispatched) > 0 /\ AdmitPos(id) > dispatched[1].seen

\* C1: the events runSimulation dispatches are dispatched in non-decreasing
\* order of scheduledAt, whether they were admitted before the run or by a
\* process during it.
C1_DispatchNonDecreasing ==
    \A i, j \in 1..Len(dispatched) :
        i < j => dispatched[i].at <= dispatched[j].at

\* C1 witness: three events dispatched at more than one time, one of them
\* admitted by a process during the run.
C1_Witness ==
    /\ Len(dispatched) >= 3
    /\ dispatched[1].at < dispatched[3].at
    /\ \E k \in 1..Len(dispatched) : DuringRun(dispatched[k].id)

\* C2 as stated: events with the same scheduledAt are dispatched in
\* admission order (the one admitted earlier first).
C2_TiesInAdmissionOrder ==
    \A i, j \in 1..Len(dispatched) :
        (i < j /\ dispatched[i].at = dispatched[j].at)
            => AdmitPos(dispatched[i].id) < AdmitPos(dispatched[j].id)

\* C2 amended: of two events with the same scheduledAt that both await
\* dispatch, the one admitted later is dispatched first (reverse admission
\* order).
C2_TiesInReverseAdmissionOrder ==
    \A i, j \in 1..Len(dispatched) :
        (/\ i < j
         /\ dispatched[i].at = dispatched[j].at
         /\ AdmitPos(dispatched[j].id) <= dispatched[i].seen)
            => AdmitPos(dispatched[j].id) < AdmitPos(dispatched[i].id)

\* C2 witness: three events admitted before the run with the same
\* scheduledAt have all been dispatched.
C2_Witness ==
    /\ Len(dispatched) >= 3
    /\ dispatched[1].at = dispatched[3].at
    /\ dispatched[1].seen >= 3

\* C3: a scheduleEvent call for an event due before currentTime throws, and
\* leaves the event queue and currentTime as they were when it was made.
C3_CausalityViolation ==
    (call.op = "scheduleEvent" /\ call.scheduledAt < call.now)
        => /\ call.threw
           /\ events = call.eventsBefore
           /\ currentTime = call.now

\* C3 witness: a process called scheduleEvent during the run, at a clock
\* past 0 and with other events in the queue, and the call threw.
C3_Witness ==
    /\ call.op = "scheduleEvent"
    /\ call.threw
    /\ phase = "running"
    /\ call.now > 0
    /\ Len(call.eventsBefore) >= 2

\* ----------------------------------------------------- claims on the store
LastOp == ops[Len(ops)]

IsResolved(id) == id \in DOMAIN resolved

\* The store operations so far are n puts followed by m gets, on a store
\* created empty.
PutsThenGets(n, m) ==
    /\ Len(ops) = n + m
    /\ ops[1].itemsBefore = <<>>
    /\ \A k \in 1..n : ops[k].op = "put"
    /\ \A k \in (n + 1)..(n + m) : ops[k].op = "get"

\* The store operations so far are m gets followed by n puts, on a store
\* created empty.
GetsThenPuts(m, n) ==
    /\ Len(ops) = m + n
    /\ ops[1].itemsBefore = <<>>
    /\ \A k \in 1..m : ops[k].op = "get"
    /\ \A k \in (m + 1)..(m + n) : ops[k].op = "put"

C6_FirstDepositsServeRequests ==
    \A n, m \in 1..Len(ops) :
        (m < n /\ PutsThenGets(n, m))
            => /\ \A k \in 1..m :
                     /\ IsResolved(ops[n + k].by)
                     /\ resolved[ops[n + k].by].value = ops[k].item
               /\ Len(items) = n - m
               /\ queue = <<>>

\* C7: after M gets followed by N < M puts on a store created empty, the
\* k-th get (k <= N) has the item of the k-th put, the other M - N gets
\* stay unresolved, and M - N gets are parked and no item is queued.
C7_FirstRequestsServed ==
    \A m, n \in 1..Len(ops) :
        (n < m /\ GetsThenPuts(m, n))
            => /\ \A k \in 1..n :
                     /\ IsResolved(ops[k].by)
                     /\ resolved[ops[k].by].value = ops[m + k].item
               /\ \A k \in (n + 1)..m : ~IsResolved(ops[k].by)
               /\ queue = [k \in 1..(m - n) |-> ops[n + k].by]
               /\ items = <<>>

\* C7 witness: the run ended after two gets followed by one put.
C7_Witness == phase = "terminated" /\ GetsThenPuts(2, 1)

\* C8: queued items and parked gets never coexist.
C8_OneQueueEmpty == items = <<>> \/ queue = <<>>

\* C9: a get on a store that holds an item is not parked: it takes the
\* oldest item, its promise is resolved with that item at once, and the
\* clock does not move.
C9_GetTakesOldestItem ==
    (Len(ops) > 0 /\ LastOp.op = "get" /\ LastOp.itemsBefore # <<>>)
        => /\ IsResolved(LastOp.by)
           /\ resolved[LastOp.by] = Resolution(Head(LastOp.itemsBefore), LastOp.now)
           /\ items = Tail(LastOp.itemsBefore)
           /\ queue = LastOp.queueBefore
           /\ currentTime = LastOp.now

\* C10: a put on a store with a parked get resolves the oldest parked get
\* with the item at the current time, queues nothing, and returns to the
\* producer at the same time.
C10_PutServesOldestRequest ==
    (Len(ops) > 0 /\ LastOp.op = "put" /\ LastOp.queueBefore # <<>>)
        => /\ queue = Tail(LastOp.queueBefore)
           /\ IsResolved(Head(LastOp.queueBefore))
           /\ resolved[Head(LastOp.queueBefore)] = Resolution(LastOp.item, LastOp.now)
           /\ items = LastOp.itemsBefore
           /\ IsResolved(LastOp.by)
           /\ resolved[LastOp.by] = Resolution(LastOp.item, LastOp.now)
           /\ currentTime = LastOp.now

\* C10 witness: a put has just been made, at a clock past 0, on a store
\* where two gets were parked.
C10_Witness ==
    /\ Len(ops) > 0
    /\ LastOp.op = "put"
    /\ Len(LastOp.queueBefore) >= 2
    /\ LastOp.now > 0

\* ------------------------------------------- claims on the resources store
\* The gets that took the deposit of put number k.
TakersOf(k) ==
    {j \in (k + 1)..Len(ops) :
        /\ ops[j].op = "get"
        /\ ops[j].putRequestsBefore # <<>>
        /\ Head(ops[j].putRequestsBefore).process = ops[k].by}

\* C4: a blocking put made at T1 with no consumer waiting parks the
\* producer; when a get at T2 takes that deposit, the producer resumes at
\* T2 (not at T1), and so does the consumer, with the item.
C4_BlockingPutResumesAtMatch ==
    \A k \in 1..Len(ops) :
        (ops[k].op = "put" /\ ops[k].blocking /\ ops[k].getRequestsBefore = <<>>)
            => IF TakersOf(k) = {}
               THEN ~IsResolved(ops[k].by)
               ELSE \A j \in TakersOf(k) :
                       /\ IsResolved(ops[k].by)
                       /\ resolved[ops[k].by].at = ops[j].now
                       /\ IsResolved(ops[j].by)
                       /\ resolved[ops[j].by] = Resolution(ops[k].item, ops[j].now)

\* C4 witness: the run ended after a blocking put at T1 whose deposit a get
\* took at T2 > T1.
C4_Witness ==
    /\ phase = "terminated"
    /\ \E k \in 1..Len(ops) :
          /\ ops[k].op = "put" /\ ops[k].blocking
          /\ ops[k].getRequestsBefore = <<>>
          /\ \E j \in TakersOf(k) : ops[j].now > ops[k].now

\* ------------------------------------------------------- the clock (C11)
\* C11: currentTime never decreases, whatever the step (an admission, a
\* loop iteration of runSimulation with the scheduleEvent calls its callback
\* makes, the end of the loop, the promise jobs); and it changes only in a
\* step that dispatches an event, to that event's scheduledAt.
C11_ClockNeverDecreases ==
    [][/\ currentTime' >= currentTime
       /\ currentTime' # currentTime =>
              /\ Len(dispatched') = Len(dispatched) + 1
              /\ currentTime' = dispatched'[Len(dispatched')].at]_vars

\* The clock has advanced during the run and a process has called
\* scheduleEvent after it did.
C11_Witness ==
    /\ Len(dispatched) >= 2
    /\ currentTime > InitialTime
    /\ currentTime > dispatched[1].at
    /\ call.op = "scheduleEvent"
    /\ call.now = currentTime

\* ------------------------------------------ the end of the run (C12, C13)
\* runSimulation's promise is settled: the loop has ended, sim.terminate
\* was called and every promise job has run.
RunEnded == phase = "terminated" /\ jobs = <<>>

HasFinishedAt(event) == "finishedAt" \in DOMAIN event

\* The events of the processes parked on the store: state.queue holds the
\* resolver of each get that found nothing to take.
Parked == {queue[k] : k \in 1..Len(queue)}

\* C12 as stated: when the run has ended, the event of a process still
\* parked on the store has status Pending and no finishedAt.
C12_ParkedStaysPending ==
    RunEnded =>
        \A id \in Parked :
            /\ EventOf(events, id).status = "Pending"
            /\ ~HasFinishedAt(EventOf(events, id))

\* C12 amended: when the run has ended, the event of a process still parked
\* on the store is Terminated with finishedAt the final currentTime; its
\* get is still unresolved and its entry is still in the store's queue, one
\* entry for each get that was not served.
C12_ParkedEndsTerminated ==
    RunEnded =>
        /\ \A id \in Parked :
              /\ EventOf(events, id).status = "Terminated"
              /\ EventOf(events, id).finishedAt = currentTime
              /\ ~IsResolved(id)
        /\ Parked = {ops[k].by : k \in {n \in 1..Len(ops) : ops[n].op = "get"}}
                        \ DOMAIN resolved
        /\ Cardinality(Parked) = Len(queue)

\* The run has ended with a get still parked, after a later event moved
\* the clock.
C12_Witness ==
    /\ RunEnded
    /\ queue # <<>>
    /\ \E id \in Parked : EventOf(events, id).scheduledAt < currentTime

\* The events of the processes that returned store.put(item): they never
\* suspend.
PutEvents == {k \in 1..Len(events) : events[k].callback.kind = "put"}

\* C13: when the run has ended, the event of a process that returned a
\* value without suspending is Completed, its item is the value returned
\* and its finishedAt is its scheduledAt, the time of its turn.
C13_CompletedAtItsTurn ==
    RunEnded =>
        \A k \in PutEvents :
            /\ events[k].status = "Completed"
            /\ events[k].item = <<resolved[events[k].id].value>>
            /\ events[k].finishedAt = events[k].scheduledAt

\* ------------------------------ a process's scheduleEvent throws (C14-C16)
\* runSimulation is no longer in its loop: it returned its promise, or an
\* exception left it.
Stopped == phase \in {"terminated", "thrown"}

Dispatched == {dispatched[k].id : k \in 1..Len(dispatched)}

\* The events admitted by processes during the run.
RunAdmitted == {admitted[k] : k \in {n \in 1..Len(admitted) : DuringRun(admitted[n])}}

\* C14: when a scheduleEvent call made by a process during the run has
\* thrown, the run goes on (runSimulation is still in its loop, so the
\* remaining due events are dispatched) and the event queue and the clock
\* are as the call found them.
C14_ErrorConfinedToCall ==
    (call.op = "scheduleEvent" /\ call.threw /\ Len(dispatched) > 0)
        => /\ phase = "running"
           /\ events = call.eventsBefore
           /\ currentTime = call.now

\* C15: when runSimulation has stopped, every event a process admitted
\* during the run has been dispatched by it, after the events due before it.
C15_RunAdmittedIsDispatched ==
    Stopped =>
        /\ RunAdmitted \subseteq Dispatched
        /\ \A i, j \in 1..Len(dispatched) :
              (i < j /\ {dispatched[i].id, dispatched[j].id} \cap RunAdmitted # {})
                  => dispatched[i].at <= dispatched[j].at

\* C16: when runSimulation has stopped, no admitted event with status
\* Scheduled and scheduledAt >= currentTime remains; while it has not, and
\* such an event remains, it dispatches one.
C16_StopsWhenNothingIsDue ==
    /\ Stopped => TodoIndexes(events, currentTime) = {}
    /\ (phase = "running" /\ TodoIndexes(events, currentTime) # {})
           => ENABLED (DispatchNoop \/ DispatchSched)

\* --------------------------------- blocking flags and the matching (C17)
\* The consumers: the processes that made a get.
Consumers == {ops[k].by : k \in {n \in 1..Len(ops) : ops[n].op = "get"}}

\* The pairing of the run: which consumer has resumed with which item.
Pairing ==
    {[id |-> c, value |-> resolved[c].value] : c \in Consumers \cap DOMAIN resolved}

\* Another run of the same sequence of operations, in which the k-th
\* operation, when it is a put, has the blocking flag flags[k]: the store
\* after the first k operations and the consumers served by them.
RECURSIVE Replay(_, _)
Replay(flags, k) ==
    IF k = 0
    THEN [putRequests |-> <<>>, getRequests |-> <<>>, pairing |-> {}]
    ELSE LET before == Replay(flags, k - 1)
             r == IF ops[k].op = "put"
                  THEN resourcesPut(before.putRequests, before.getRequests,
                                    ops[k].by, ops[k].item, flags[k])
                  ELSE resourcesGet(before.putRequests, before.getRequests,
                                    ops[k].by)
         IN [putRequests |-> r.putRequests, getRequests |-> r.getRequests,
             pairing |-> before.pairing
                         \cup {x \in r.resumed : x.id \in Consumers}]

\* C17: whatever blocking flags the puts of the run's sequence of
\* operations are given instead of their own, the same consumers receive
\* the same items and the two queues end with the same lengths.
C17_PairingIgnoresBlocking ==
    \A flags \in [1..Len(ops) -> BOOLEAN] :
        LET other == Replay(flags, Len(ops))
        IN /\ other.pairing = Pairing
           /\ Len(other.putRequests) = Len(putRequests)
           /\ Len(other.getRequests) = Len(getRequests)

\* A get has taken the older of two queued deposits, of which exactly one
\* was made by a blocking put.
C17_Witness ==
    /\ Len(ops) >= 3
    /\ ops[1].op = "put" /\ ops[2].op = "put" /\ ops[3].op = "get"
    /\ ops[1].blocking # ops[2].blocking
    /\ [id |-> ops[3].by, value |-> ops[1].item] \in Pairing

\* ------------------------------- a sequential caller of the store (C18)
\* The longest program of store operations a caller runs.
MaxProgram == 4

\* One `await store.get()` or `await store.put(item)` of the caller.
CallerSteps == {[op |-> "get"]} \cup [op : {"put"}, val : ItemValues]

Programs == UNION {[1..n -> CallerSteps] : n \in 0..MaxProgram}

\* An async function about to run its program on createStore(), outside
\* any simulation.
CallerInit ==
    /\ currentTime = InitialTime
    /\ events = <<>>
    /\ lastId = 0
    /\ phase = "setup"
    /\ dispatched = <<>>
    /\ admitted = <<>>
    /\ call = NoCall
    /\ items = <<>>
    /\ queue = <<>>
    /\ resolved = <<>>
    /\ ops = <<>>
    /\ putRequests = <<>>
    /\ getRequests = <<>>
    /\ jobs = <<>>
    /\ reactions = <<>>
    /\ raced = {}
    /\ caller \in {[NoCaller EXCEPT !.program = p] : p \in Programs}

CallerDone == caller.pc > Len(caller.program)

CallerReady == ~CallerDone /\ ~caller.awaiting

\* The caller evaluates store.get() and awaits the promise: when it is
\* already resolved, the caller's continuation is a job at once.
CallerGet ==
    /\ CallerReady
    /\ caller.program[caller.pc].op = "get"
    /\ LET r == get(items, queue, caller.pc)
       IN /\ items' = r.items
          /\ queue' = r.queue
          /\ resolved' = IF r.returned = <<>> THEN resolved
                          ELSE Resolve(resolved, caller.pc, r.returned[1],
                                       currentTime)
          /\ jobs' = IF r.returned = <<>> THEN jobs
                     ELSE Append(jobs, ContinuationJob(caller.pc, r.returned))
    /\ ops' = Append(ops, OpRecord("get", caller.pc, currentTime, Item(0, 0)))
    /\ caller' = [caller EXCEPT !.awaiting = TRUE]
    /\ UNCHANGED <<schedVars, resourceVars, reactions, raced>>

\* The caller evaluates store.put(item) and awaits the promise.
CallerPut ==
    /\ CallerReady
    /\ caller.program[caller.pc].op = "put"
    /\ LET item == Item(caller.program[caller.pc].val, caller.pc)
           r == put(items, queue, item)
           woke == IF r.woken = <<>> THEN resolved
                   ELSE Resolve(resolved, r.woken[1], item, currentTime)
       IN /\ items' = r.items
          /\ queue' = r.queue
          /\ resolved' = Resolve(woke, caller.pc, r.returned[1], currentTime)
          /\ jobs' = (IF r.woken = <<>> THEN jobs
                      ELSE Append(jobs, ContinuationJob(r.woken[1], <<item>>)))
                     \o <<ContinuationJob(caller.pc, r.returned)>>
          /\ ops' = Append(ops, OpRecord("put", caller.pc, currentTime, item))
    /\ caller' = [caller EXCEPT !.awaiting = TRUE]
    /\ UNCHANGED <<schedVars, resourceVars, reactions, raced>>

\* The job that resumes the caller after its await, with the value the
\* promise was resolved with.
CallerResume ==
    /\ caller.awaiting
    /\ jobs # <<>>
    /\ Head(jobs).job = "continuation"
    /\ Head(jobs).id = caller.pc
    /\ jobs' = Tail(jobs)
    /\ caller' = [caller EXCEPT !.awaiting = FALSE,
                                !.pc = caller.pc + 1,
                                !.results = Append(caller.results,
                                                   Head(jobs).value[1])]
    /\ UNCHANGED <<schedVars, storeVars, resourceVars, reactions, raced>>

CallerNext ==
    \/ CallerGet
    \/ CallerPut
    \/ CallerResume

CallerSpec == CallerInit /\ [][CallerNext]_vars

\* const p1 = await store.get(); const p2 = await store.put('foo');
\* const p3 = await store.put('bar'); const p4 = await store.get();
AwaitingTest ==
    <<[op |-> "get"], [op |-> "put", val |-> 1], [op |-> "put", val |-> 1],
      [op |-> "get"]>>

\* 'foo' and 'bar': the items of the second and the third step.
Foo == Item(1, 2)

Bar == Item(1, 3)

\* C18: the caller that awaits get, put('foo'), put('bar'), get in turn on
\* an empty store runs to completion with the results foo, foo, bar, bar:
\* until it has, it always has a next step.
C18_SequentialCallerCompletes ==
    caller.program = AwaitingTest =>
        \/ CallerDone /\ caller.results = <<Foo, Foo, Bar, Bar>>
        \/ ~CallerDone /\ ENABLED CallerNext

\* ------------------------------------------- the life of an event (C20)
Ids(evs) == {evs[k].id : k \in 1..Len(evs)}

\* The times an event has been dispatched.
TimesDispatched(log, id) == Cardinality({k \in 1..Len(log) : log[k].id = id})

\* What a step may do to the status of the events, with `final` the
\* statuses a Pending event may end in:
\*   - an event enters sim.events only through scheduleEvent, as Scheduled,
\*     from the Fired event createEvent made, and never leaves;
\*   - Scheduled becomes Pending, only in the step that dispatches it;
\*   - Pending becomes one of `final`, and nothing else changes;
\*   - no event is dispatched twice.
Lifecycle(final) ==
    /\ createEvent(currentTime, lastId, currentTime, NoopProcess).status = "Fired"
    /\ Ids(events) \subseteq Ids(events')
    /\ \A id \in Ids(events') \ Ids(events) :
          /\ EventOf(events', id).status = "Scheduled"
          /\ admitted' = Append(admitted, id)
    /\ \A id \in Ids(events) :
          LET old == EventOf(events, id).status
              new == EventOf(events', id).status
          IN old # new =>
                \/ /\ old = "Scheduled" /\ new = "Pending"
                   /\ Len(dispatched') = Len(dispatched) + 1
                   /\ dispatched'[Len(dispatched')].id = id
                \/ old = "Pending" /\ new \in final
    /\ \A id \in Ids(events') : TimesDispatched(dispatched', id) <= 1

\* C20 as stated: the status of an event only moves along
\* Fired -> Scheduled -> Pending -> Completed, and no event is dispatched
\* twice.
C20_StatusMovesForward == [][Lifecycle({"Completed"})]_vars

\* C20 amended: the status of an event only moves along
\* Fired -> Scheduled -> Pending -> Completed or Terminated, and no event
\* is dispatched twice.
C20_StatusMovesForwardOrTerminates ==
    [][Lifecycle({"Completed", "Terminated"})]_vars

\* The run has ended with an event Completed, another Terminated, each
\* dispatched once.
C20_Witness ==
    /\ RunEnded
    /\ \E k \in 1..Len(events) : events[k].status = "Completed"
    /\ \E k \in 1..Len(events) : events[k].status = "Terminated"
    /\ \A id \in Ids(events) : TimesDispatched(dispatched, id) = 1

\* ------------------------------------- what scheduleEvent changes (C21)
\* const e = createEvent(sim, t); then scheduleEvent(sim, e), before the
\* run or after it has ended, with the array it returns assigned to
\* sim.events or not.  The call is recorded with what it returned (<<>>
\* when it threw) and with the dispatches made before it.
ScheduleCall(t, assigned) ==
    /\ phase = "setup" \/ RunEnded
    /\ lastId < MaxEvents
    /\ lastId' = generateId(lastId)
    /\ LET threw == InThePast(t, currentTime)
           returned == IF threw THEN <<>>
                       ELSE scheduleEvent(events,
                                createEvent(currentTime, lastId', t, NoopProcess))
       IN /\ call' = [returned |-> returned, assigned |-> assigned,
                      dispatchedBefore |-> dispatched]
                         @@ CallRecord(t, currentTime, events, threw)
          /\ events' = IF assigned /\ ~threw THEN returned ELSE events
          /\ admitted' = IF assigned /\ ~threw THEN Append(admitted, lastId')
                         ELSE admitted
    /\ UNCHANGED <<currentTime, phase, dispatched, storeVars, resourceVars,
                   promiseVars, caller>>

\* sim.events = scheduleEvent(sim, e);
ScheduleAssigned == \E t \in Times : ScheduleCall(t, TRUE)

\* scheduleEvent(sim, e);
ScheduleDiscarded == \E t \in Times : ScheduleCall(t, FALSE)

ScheduleNext ==
    \/ ScheduleAssigned
    \/ ScheduleDiscarded
    \/ Run
    \/ DispatchNoop
    \/ LoopExit
    \/ Settle

ScheduleSpec == Init /\ [][ScheduleNext]_vars

\* The last step was a scheduleEvent call that did not throw; its event
\* has the id lastId.
Successful == call.op = "scheduleEvent" /\ ~call.threw

\* evs without its k-th element.
Without(evs, k) ==
    [j \in 1..(Len(evs) - 1) |-> IF j < k THEN evs[j] ELSE evs[j + 1]]

\* The queue evs holds the event of the call exactly once, as Scheduled and
\* due when the call said, among the events the call found, unchanged.
Admits(evs) ==
    \E k \in 1..Len(evs) :
        /\ {j \in 1..Len(evs) : evs[j].id = lastId} = {k}
        /\ evs[k].status = "Scheduled"
        /\ evs[k].scheduledAt = call.scheduledAt
        /\ Without(evs, k) = call.eventsBefore

\* C21 as stated: after a successful scheduleEvent(sim, event) the queue of
\* the simulation holds the event exactly once, as Scheduled, with the
\* events admitted before unchanged; currentTime is what it was and nothing
\* was dispatched.
C21_QueueHoldsEvent ==
    Successful =>
        /\ Admits(events)
        /\ currentTime = call.now
        /\ dispatched = call.dispatchedBefore

\* C21 amended: it is the queue that a successful scheduleEvent(sim, event)
\* returns that holds the event so; the queue of the simulation is the
\* returned one when the caller assigned it to sim.events and the one the
\* call found when not; currentTime is what it was and nothing was
\* dispatched.
C21_ReturnedQueueHoldsEvent ==
    Successful =>
        /\ Admits(call.returned)
        /\ events = IF call.assigned THEN call.returned ELSE call.eventsBefore
        /\ currentTime = call.now
        /\ dispatched = call.dispatchedBefore

\* A scheduleEvent call whose result was not assigned succeeded after a
\* run that moved the clock, with events in the queue.
C21_Witness ==
    /\ Successful
    /\ ~call.assigned
    /\ call.now > InitialTime
    /\ call.eventsBefore # <<>>
    /\ call.dispatchedBefore # <<>>

\* ------------------------------------------- what resumes a parked get (C22)
\* What a step may do to the processes parked on the store, with
\* `atEnd` the status of a parked process's event once the run has ended:
\*   - a parked process leaves the queue, and its get is resolved, only in
\*     a step that is a put on the store, and with the item of that put;
\*   - while it is parked its event is Pending (`atEnd` after the run).
ParkedStep(atEnd) ==
    /\ \A id \in Parked :
          (id \notin {queue'[k] : k \in 1..Len(queue')} \/ id \in DOMAIN resolved')
              => /\ Len(ops') = Len(ops) + 1
                 /\ ops'[Len(ops')].op = "put"
                 /\ id \in DOMAIN resolved' \ DOMAIN resolved
                 /\ resolved'[id] = Resolution(ops'[Len(ops')].item, currentTime')
                 /\ id \notin {queue'[k] : k \in 1..Len(queue')}
    /\ \A k \in 1..Len(queue') :
          EventOf(events', queue'[k]).status =
              IF phase' = "terminated" /\ jobs' = <<>> THEN atEnd ELSE "Pending"

\* C22 as stated: a process parked on the store is resumed only by a put
\* on that store, never by the clock advancing or by another event's
\* dispatch, and while it is parked its event stays Pending.
C22_ParkedStaysPendingUntilPut == [][ParkedStep("Pending")]_vars

\* C22 amended: a process parked on the store is resumed only by a put on
\* that store, never by the clock advancing or by another event's dispatch;
\* while it is parked its event is Pending during the run and Terminated
\* once the run has ended.
C22_ParkedUntilPut == [][ParkedStep("Terminated")]_vars

\* A get parked while the clock advanced and another get was dispatched was
\* resumed by a later put, and the run has ended with the other get still
\* parked.
C22_Witness ==
    /\ RunEnded
    /\ queue # <<>>
    /\ \E k \in 1..Len(ops) :
          /\ ops[k].op = "get"
          /\ IsResolved(ops[k].by)
          /\ resolved[ops[k].by].at > ops[k].now
          /\ Len(ops) >= k + 2

\* -------------------------------------------- conservation of items (C23)
\* The items createStore was given.
InitialOf == IF ops = <<>> THEN items ELSE ops[1].itemsBefore

Occurrences(x, seq) == Cardinality({k \in 1..Len(seq) : seq[k] = x})

\* The items deposited by the puts made so far.
Deposited == {ops[k].item : k \in {n \in 1..Len(ops) : ops[n].op = "put"}}

\* The gets that have received the item x.
ReceiversOf(x) ==
    {c \in {ops[k].by : k \in {n \in 1..Len(ops) : ops[n].op = "get"}} :
        IsResolved(c) /\ resolved[c].value = x}

\* C23: every item the store was given, at creation or by a put, has been
\* delivered to one get or is queued in the store once, as many times as it
\* was given: none is lost, duplicated or delivered twice.
C23_ItemsConserved ==
    \A x \in Deposited \cup {InitialOf[k] : k \in 1..Len(InitialOf)} :
        Occurrences(x, InitialOf) + (IF x \in Deposited THEN 1 ELSE 0)
            = Occurrences(x, items) + Cardinality(ReceiversOf(x))

\* ------------------------------------ no event is left behind (C24)
\* C24: every event in the queue with status Scheduled is due at
\* currentTime or later, in every state of a run; and when runSimulation
\* has returned, no event in the queue is Scheduled.
C24_NoScheduledEventInThePast ==
    /\ \A k \in 1..Len(events) :
          events[k].status = "Scheduled" => events[k].scheduledAt >= currentTime
    /\ phase = "terminated" =>
          \A k \in 1..Len(events) : events[k].status # "Scheduled"

\* runSimulation has returned after the clock advanced past events
\* dispatched earlier, one of its events admitted by a process during the
\* run.
C24_Witness ==
    /\ phase = "terminated"
    /\ currentTime > InitialTime
    /\ Len(events) >= 3
    /\ RunAdmitted # {}
    /\ \E k \in 1..Len(events) : events[k].scheduledAt < currentTime

====
